---- MODULE Spec2Model ----
\* Tuition-centre support chatbot: the chat route's tool-calling loop
\* (POST), the scheduling store operations of lib/googleSheets.ts and the
\* calendar arithmetic of createBatchSchedule.
EXTENDS Integers, Sequences, FiniteSets, TLC

\* ---------------------------------------------------------------------
\* Strings.  A string is a sequence of one-character strings, so that
\* trim() and toLowerCase() are computed and not assumed.
\* ---------------------------------------------------------------------

\* The JavaScript value `undefined` (an absent argument, an empty cell).
Undefined == <<"<undefined>">>

\* The line terminators the pattern [\r\n] matches.
Newlines == {"\r", "\n"}

\* Characters String.prototype.trim() removes.
Whitespace == {" "} \cup Newlines

\* `value ?? ''`
OrEmpty(value) == IF value = Undefined THEN <<>> ELSE value

\* String(value) of a string or of undefined.
String(value) ==
  IF value = Undefined THEN <<"u", "n", "d", "e", "f", "i", "n", "e", "d">> ELSE value

RECURSIVE TrimStart(_)
TrimStart(s) ==
  IF s # <<>> /\ Head(s) \in Whitespace THEN TrimStart(Tail(s)) ELSE s

RECURSIVE TrimEnd(_)
TrimEnd(s) ==
  IF s # <<>> /\ s[Len(s)] \in Whitespace THEN TrimEnd(SubSeq(s, 1, Len(s) - 1)) ELSE s

\* String.prototype.trim()
Trim(s) == TrimEnd(TrimStart(s))

LowerChar(c) ==
  CASE c = "M" -> "m"
    [] c = "S" -> "s"
    [] OTHER -> c

\* String.prototype.toLowerCase()
ToLowerCase(s) == [i \in 1..Len(s) |-> LowerChar(s[i])]

normalizeValue(value) == Trim(OrEmpty(value))

normalizeSubject(value) == ToLowerCase(normalizeValue(value))

\* ---------------------------------------------------------------------
\* Calendar.  A Date is a number of hours since 1970-01-01T00:00Z, or NaN.
\* ---------------------------------------------------------------------

\* An Invalid Date / Number(undefined): a value outside every valid time.
NaN == 0 - 1

Digits == <<"0", "1", "2", "3", "4", "5", "6", "7", "8", "9">>

IsDigit(c) == \E d \in 1..10 : Digits[d] = c

DigitValue(c) == (CHOOSE d \in 1..10 : Digits[d] = c) - 1

Pad2(n) == <<Digits[(n \div 10) + 1], Digits[(n % 10) + 1]>>

Pad4(n) ==
  <<Digits[((n \div 1000) % 10) + 1], Digits[((n \div 100) % 10) + 1]>> \o Pad2(n % 100)

IsLeapYear(y) == (y % 4 = 0 /\ y % 100 # 0) \/ y % 400 = 0

DaysInMonth(y, m) ==
  CASE m = 2 -> IF IsLeapYear(y) THEN 29 ELSE 28
    [] m \in {4, 6, 9, 11} -> 30
    [] OTHER -> 31

\* Days from 1970-01-01 to the civil date y-m-d (proleptic Gregorian).
DaysFromCivil(y, m, d) ==
  LET yy == IF m <= 2 THEN y - 1 ELSE y
      era == yy \div 400
      yoe == yy - era * 400
      mp == (m + 9) % 12
      doy == ((153 * mp + 2) \div 5) + d - 1
      doe == yoe * 365 + (yoe \div 4) - (yoe \div 100) + doy
  IN  era * 146097 + doe - 719468

\* The civil date <<y, m, d>> of a day number.
CivilFromDays(z0) ==
  LET z == z0 + 719468
      era == z \div 146097
      doe == z - era * 146097
      yoe == (doe - (doe \div 1460) + (doe \div 36524) - (doe \div 146096)) \div 365
      doy == doe - (365 * yoe + (yoe \div 4) - (yoe \div 100))
      mp == (5 * doy + 2) \div 153
      d == doy - ((153 * mp + 2) \div 5) + 1
      m == IF mp < 10 THEN mp + 3 ELSE mp - 9
      y == yoe + era * 400 + (IF m <= 2 THEN 1 ELSE 0)
  IN  <<y, m, d>>

HoursPerDay == 24

\* new Date(str) for a date-only ISO string "YYYY-MM-DD": midnight UTC of that
\* day; any other text gives an Invalid Date.
NewDate(str) ==
  IF /\ Len(str) = 10
     /\ str[5] = "-" /\ str[8] = "-"
     /\ \A i \in {1, 2, 3, 4, 6, 7, 9, 10} : IsDigit(str[i])
  THEN LET y == 1000 * DigitValue(str[1]) + 100 * DigitValue(str[2])
                + 10 * DigitValue(str[3]) + DigitValue(str[4])
           m == 10 * DigitValue(str[6]) + DigitValue(str[7])
           d == 10 * DigitValue(str[9]) + DigitValue(str[10])
       IN  IF m \in 1..12 /\ d \in 1..DaysInMonth(y, m)
           THEN DaysFromCivil(y, m, d) * HoursPerDay
           ELSE NaN
  ELSE NaN

\* Date.prototype.toISOString().split('T')[0]
ISODate(t) ==
  LET c == CivilFromDays(t \div HoursPerDay)
  IN  Pad4(c[1]) \o <<"-">> \o Pad2(c[2]) \o <<"-">> \o Pad2(c[3])

\* Date.prototype.getUTCDay(): 0 = Sunday .. 6 = Saturday (1970-01-01 was a
\* Thursday).
GetUTCDay(t) == ((t \div HoursPerDay) + 4) % 7

\* A process time zone: the standard offset, the daylight-saving offset and
\* the UTC instants (in hours) between which daylight saving applies.
Instant(y, m, d, h) == DaysFromCivil(y, m, d) * HoursPerDay + h

ZoneUTC == [name |-> "UTC", std |-> 0, dst |-> 0, from |-> 0, to |-> 0]

ZoneSingapore == [name |-> "Asia/Singapore", std |-> 8, dst |-> 8, from |-> 0, to |-> 0]

ZoneBerlin ==
  [name |-> "Europe/Berlin", std |-> 1, dst |-> 2,
   from |-> Instant(2025, 3, 30, 1), to |-> Instant(2025, 10, 26, 1)]

ZoneNewYork ==
  [name |-> "America/New_York", std |-> 0 - 5, dst |-> 0 - 4,
   from |-> Instant(2025, 3, 9, 7), to |-> Instant(2025, 11, 2, 6)]

TimeZones == {ZoneUTC, ZoneSingapore, ZoneBerlin, ZoneNewYork}

\* LocalTZA(t, true): the offset of local time from UTC at the instant t.
Offset(zone, t) == IF zone.from <= t /\ t < zone.to THEN zone.dst ELSE zone.std

\* UTC(tlocal): a repeated or skipped local time is read with the offset in
\* force before the transition.
LocalToUTC(zone, w) ==
  LET c == {t \in {w - zone.std, w - zone.dst} : t + Offset(zone, t) = w}
  IN  IF c = {} THEN w - zone.std
      ELSE CHOOSE t \in c : \A u \in c : t <= u

\* const currentDate = new Date(start); currentDate.setDate(start.getDate() + i):
\* the local calendar day moves by i, the local time of day is kept.
SetDatePlus(zone, start, i) ==
  IF start = NaN THEN NaN
  ELSE LocalToUTC(zone, start + Offset(zone, start) + i * HoursPerDay)

\* ---------------------------------------------------------------------
\* The scheduling store (the 'schedule' sheet) and its operations.
\* ---------------------------------------------------------------------

\* A ScheduleRow: row.get(header) is a string, or undefined for an empty cell.
ScheduleRow(date, time, subject, teacher, student, contact) ==
  [Date |-> date, Time |-> time, Subject |-> subject, Teacher |-> teacher,
   Student_Name |-> student, Contact_Info |-> contact]

SlotIdentifier(date, time, subject, teacher) ==
  [date |-> date, time |-> time, subject |-> subject, teacher |-> teacher]

\* row.rowNumber: the header is sheet row 1, the first data row is row 2.
RowNumber(i) == i + 1

\* What a store operation gives back: the sheet afterwards, whether it threw,
\* and the value returned or the message of the Error thrown.
Returned(rows, value) == [rows |-> rows, threw |-> FALSE, value |-> value]

Thrown(rows, msg) == [rows |-> rows, threw |-> TRUE, value |-> msg]

\* The comparison leaving the teacher out.
matchesSlot_IgnoresTeacher(row, slot) ==
  /\ normalizeValue(row.Date) = normalizeValue(slot.date)
  /\ normalizeValue(row.Time) = normalizeValue(slot.time)
  /\ normalizeSubject(row.Subject) = normalizeSubject(slot.subject)

matchesSlot(row, slot) ==
  /\ normalizeValue(row.Date) = normalizeValue(slot.date)
  /\ normalizeValue(row.Time) = normalizeValue(slot.time)
  /\ normalizeSubject(row.Subject) = normalizeSubject(slot.subject)
  /\ normalizeValue(row.Teacher) = normalizeValue(slot.teacher)

\* `!studentName || studentName.trim() === ''`
IsBlank(studentName) ==
  studentName = Undefined \/ studentName = <<>> \/ Trim(studentName) = <<>>

\* The filter comparing subjects without lower-casing them.
IsAvailable_CaseSensitive(row, date, subject) ==
  /\ normalizeValue(row.Date) = normalizeValue(date)
  /\ normalizeValue(row.Subject) = normalizeValue(subject)
  /\ IsBlank(row.Student_Name)

\* The filter callback of getAvailability.
IsAvailable(row, date, subject) ==
  /\ normalizeValue(row.Date) = normalizeValue(date)
  /\ normalizeSubject(row.Subject) = normalizeSubject(subject)
  /\ IsBlank(row.Student_Name)

\* The map callback of getAvailability.
AvailabilitySlot(rows, i) ==
  [rowNumber |-> RowNumber(i),
   time |-> normalizeValue(rows[i].Time),
   teacher |-> normalizeValue(rows[i].Teacher),
   date |-> normalizeValue(rows[i].Date),
   subject |-> normalizeValue(rows[i].Subject)]

RECURSIVE FilterMap(_, _, _, _)
FilterMap(rows, i, date, subject) ==
  IF i > Len(rows) THEN <<>>
  ELSE (IF IsAvailable(rows[i], date, subject)
        THEN <<AvailabilitySlot(rows, i)>> ELSE <<>>)
       \o FilterMap(rows, i + 1, date, subject)

getAvailability(rows, date, subject) ==
  Returned(rows, [slots |-> FilterMap(rows, 1, date, subject)])

\* replace(/[\r\n]+/g, ' '): each run of line terminators becomes one space.
RECURSIVE CollapseNewlines(_)
CollapseNewlines(s) ==
  IF s = <<>> THEN <<>>
  ELSE IF Head(s) \in Newlines
       THEN IF Len(s) > 1 /\ s[2] \in Newlines
            THEN CollapseNewlines(Tail(s))
            ELSE <<" ">> \o CollapseNewlines(Tail(s))
       ELSE <<Head(s)>> \o CollapseNewlines(Tail(s))

IsQuote(c) == c \in {"\"", "'"}

StripQuotes(s) == SelectSeq(s, LAMBDA c : ~IsQuote(c))

\* The characters a spreadsheet reads as the start of a formula: /^[=+\-]/.
FormulaStarts == {"=", "+", "-"}

\* The formula test made on the trimmed text, before the quotes are removed.
formatContactInfo_TestsTrimmed(contactInfo) ==
  LET trimmed == Trim(OrEmpty(contactInfo))
      sanitized == Trim(StripQuotes(CollapseNewlines(trimmed)))
  IN  IF trimmed = <<>> THEN <<>>
      ELSE IF Head(trimmed) \in FormulaStarts
           THEN <<"'">> \o sanitized
           ELSE sanitized

formatContactInfo(contactInfo) ==
  LET trimmed == Trim(OrEmpty(contactInfo))
      sanitized == Trim(StripQuotes(CollapseNewlines(trimmed)))
  IN  IF trimmed = <<>> THEN <<>>
      ELSE IF sanitized # <<>> /\ Head(sanitized) \in FormulaStarts
           THEN <<"'">> \o sanitized
           ELSE sanitized

\* The index of the last match instead of the first, 0 if none.
FindIndex_LastMatch(rows, slot) ==
  IF \E i \in 1..Len(rows) : matchesSlot(rows[i], slot)
  THEN CHOOSE i \in 1..Len(rows) :
         /\ matchesSlot(rows[i], slot)
         /\ \A j \in (i + 1)..Len(rows) : ~matchesSlot(rows[j], slot)
  ELSE 0

\* rows.find(r => matchesSlot(r, slot)): the index of the first match, 0 if none.
FindIndex(rows, slot) ==
  IF \E i \in 1..Len(rows) : matchesSlot(rows[i], slot)
  THEN CHOOSE i \in 1..Len(rows) :
         /\ matchesSlot(rows[i], slot)
         /\ \A j \in 1..(i - 1) : ~matchesSlot(rows[j], slot)
  ELSE 0

NotFoundError == "Slot not found"

ConflictError == "Aiyo, someone just took this slot. Pick another time?"

\* bookSlot without the check of the current student.
bookSlot_NoConflictCheck(rows, slot, studentName, contactInfo) ==
  LET i == FindIndex(rows, slot)
  IN  IF i = 0 THEN Thrown(rows, NotFoundError)
      ELSE Returned(
             [rows EXCEPT ![i].Student_Name = studentName,
                          ![i].Contact_Info = formatContactInfo(contactInfo)],
             [success |-> TRUE, message |-> "Done lah! See you."])

bookSlot(rows, slot, studentName, contactInfo) ==
  LET i == FindIndex(rows, slot)
  IN  IF i = 0 THEN Thrown(rows, NotFoundError)
      ELSE IF ~IsBlank(rows[i].Student_Name) THEN Thrown(rows, ConflictError)
      ELSE Returned(
             [rows EXCEPT ![i].Student_Name = studentName,
                          ![i].Contact_Info = formatContactInfo(contactInfo)],
             [success |-> TRUE, message |-> "Done lah! See you."])

\* addSlot putting the new row first.
addSlot_Prepends(rows, date, time, subject, teacher) ==
  Returned(<<ScheduleRow(date, time, subject, teacher, <<>>, <<>>)>> \o rows,
           [success |-> TRUE, message |-> "Slot added successfully!"])

addSlot(rows, date, time, subject, teacher) ==
  Returned(Append(rows, ScheduleRow(date, time, subject, teacher, <<>>, <<>>)),
           [success |-> TRUE, message |-> "Slot added successfully!"])

\* `${hour}` of a number below 100.
NumStr(n) == IF n < 10 THEN <<Digits[n + 1]>> ELSE Pad2(n)

FirstHour == 10

EndHour == 18

\* The inner loop of createBatchSchedule: one row per hour of a day.
DayRows(dateStr, subject, teacher) ==
  [k \in 1..(EndHour - FirstHour) |->
     ScheduleRow(dateStr, NumStr(FirstHour + k - 1) \o <<":", "0", "0">>,
                 subject, teacher, <<>>, <<>>)]

\* The outer loop of createBatchSchedule from day i on: the rows pushed, and
\* whether toISOString threw on an Invalid Date.
RECURSIVE rowsToAdd(_, _, _, _, _, _)
rowsToAdd(zone, start, i, days, subject, teacher) ==
  IF ~(i < days) THEN [threw |-> FALSE, rows |-> <<>>]
  ELSE LET currentDate == SetDatePlus(zone, start, i)
           dayOfWeek == IF currentDate = NaN THEN NaN ELSE GetUTCDay(currentDate)
           rest == rowsToAdd(zone, start, i + 1, days, subject, teacher)
       IN  IF dayOfWeek = 0 \/ dayOfWeek = 6 THEN rest
           ELSE IF currentDate = NaN \/ rest.threw THEN [threw |-> TRUE, rows |-> <<>>]
           ELSE [threw |-> FALSE,
                 rows |-> DayRows(ISODate(currentDate), subject, teacher) \o rest.rows]

RangeError == "Invalid time value"

\* The calls of sheet.addRows were there one for each day's rows.
AddRowsCalls_PerDay(toAdd) ==
  [d \in 1..(Len(toAdd) \div (EndHour - FirstHour)) |->
     SubSeq(toAdd, (d - 1) * (EndHour - FirstHour) + 1, d * (EndHour - FirstHour))]

\* `if (rowsToAdd.length > 0) await sheet.addRows(rowsToAdd)`: the calls of
\* sheet.addRows that createBatchSchedule makes, each with its argument.
AddRowsCalls(toAdd) == IF Len(toAdd) > 0 THEN <<toAdd>> ELSE <<>>

\* The sheet after the calls of addRows, each appending its rows.
RECURSIVE AppendAll(_, _)
AppendAll(rows, calls) ==
  IF calls = <<>> THEN rows ELSE AppendAll(rows \o Head(calls), Tail(calls))

createBatchSchedule(rows, zone, startDate, days, subject, teacher) ==
  LET toAdd == rowsToAdd(zone, NewDate(startDate), 0, days, subject, teacher)
  IN  IF toAdd.threw THEN Thrown(rows, RangeError)
      ELSE Returned(AppendAll(rows, AddRowsCalls(toAdd.rows)),
                    [success |-> TRUE, message |-> "Added slots",
                     count |-> Len(toAdd.rows)])

\* loadSheet('schedule') failing (doc.loadInfo() rejecting, or no such sheet):
\* every store operation begins with it.
SheetError == "Sheet 'schedule' not found"

WithSheet(rows, sheetFails, outcome) ==
  IF sheetFails THEN Thrown(rows, SheetError) ELSE outcome

\* ---------------------------------------------------------------------
\* Knowledge retrieval: retrieveContext of lib/rag.ts.
\* ---------------------------------------------------------------------

\* What the two collaborators do for one query: model.embedContent resolves
\* or rejects; supabase.rpc resolves to { data, error } or rejects, and data
\* is null (hasData FALSE) or a list of documents' contents.
Retrieval(embed, rpc, hasData, data) ==
  [embed |-> embed, rpc |-> rpc, hasData |-> hasData, data |-> data]

NoRetrieval == Retrieval("none", "none", FALSE, <<>>)

DocOne == <<"d">>

DocTwo == <<"e">>

RetrievalOutcomes ==
  {Retrieval("rejects", "none", FALSE, <<>>),
   Retrieval("resolves", "rejects", FALSE, <<>>),
   Retrieval("resolves", "error", FALSE, <<>>),
   Retrieval("resolves", "data", FALSE, <<>>),
   Retrieval("resolves", "data", TRUE, <<>>),
   Retrieval("resolves", "data", TRUE, <<DocOne>>),
   Retrieval("resolves", "data", TRUE, <<DocOne, DocTwo>>)}

\* What retrieveContext gives its caller: a text returned, or an error raised.
Context(text) == [threw |-> FALSE, value |-> text]

Raised(msg) == [threw |-> TRUE, value |-> msg]

\* Array.prototype.join(separator)
RECURSIVE Join(_, _)
Join(texts, separator) ==
  IF texts = <<>> THEN <<>>
  ELSE IF Len(texts) = 1 THEN texts[1]
  ELSE texts[1] \o separator \o Join(Tail(texts), separator)

\* The try block of retrieveContext.
TryRetrieve(outcome) ==
  IF outcome.embed = "rejects" THEN Raised("embedContent failed")
  ELSE IF outcome.rpc = "rejects" THEN Raised("fetch failed")
  ELSE IF outcome.rpc = "error" THEN Context(<<>>)
  ELSE IF ~outcome.hasData \/ Len(outcome.data) = 0 THEN Context(<<>>)
  ELSE Context(Join(outcome.data, <<"\n", "\n">>))

\* retrieveContext with the catch letting the error through.
retrieveContext_NoCatch(outcome) == TryRetrieve(outcome)

\* retrieveContext: the try block, and the catch that returns "".
retrieveContext(outcome) ==
  IF TryRetrieve(outcome).threw THEN Context(<<>>) ELSE TryRetrieve(outcome)

\* ---------------------------------------------------------------------
\* Inputs: the texts, the tool invocations a completion may request, the
\* chat requests, the process environments and the sheets to start from.
\* ---------------------------------------------------------------------

Monday == <<"2", "0", "2", "5", "-", "0", "6", "-", "0", "2">>

MondayPadded == Monday \o <<" ">>

Friday == <<"2", "0", "2", "5", "-", "0", "6", "-", "0", "6">>

Saturday == <<"2", "0", "2", "5", "-", "0", "6", "-", "0", "7">>

TenOClock == <<"1", "0", ":", "0", "0">>

Math == <<"M">>

MathLower == <<"m">>

MathPadded == <<" ", "M">>

Teacher == <<"x">>

Alice == <<"s">>

Bob == <<"r">>

BlankName == <<" ">>

Phone == <<"9">>

Secret == <<"p">>

WrongGuess == <<"q">>

\* The environments: ADMIN_PASSWORD set, or not set at all.
AdminSecrets == {Secret, Undefined}

\* JSON.parse(functionArgs) of an arguments object: an absent key reads as
\* undefined, and Number(args.days) of an absent key is NaN.
NoArgs ==
  [adminPassword |-> Undefined, date |-> Undefined, time |-> Undefined,
   subject |-> Undefined, teacher |-> Undefined, studentName |-> Undefined,
   contactInfo |-> Undefined, startDate |-> Undefined, days |-> NaN]

ToolCall(name, args) ==
  [type |-> "function", name |-> name, arguments |-> "json", args |-> args]

SlotArgs(subject) ==
  [NoArgs EXCEPT !.date = Monday, !.time = TenOClock, !.subject = subject,
                 !.teacher = Teacher]

BookCall(subject, studentName) ==
  ToolCall("bookSlot",
           [SlotArgs(subject) EXCEPT !.studentName = studentName,
                                     !.contactInfo = Phone])

AddCall(adminPassword) ==
  ToolCall("addSlot", [SlotArgs(Math) EXCEPT !.adminPassword = adminPassword])

BatchCall(adminPassword, startDate, days) ==
  ToolCall("createBatchSchedule",
           [NoArgs EXCEPT !.adminPassword = adminPassword, !.startDate = startDate,
                          !.days = days, !.subject = Math, !.teacher = Teacher])

Passwords == {Secret, WrongGuess, <<>>, Undefined}

\* The invocations a completion may carry.
ToolCalls ==
  {ToolCall("getAvailability",
            [NoArgs EXCEPT !.date = MondayPadded, !.subject = MathLower]),
   ToolCall("getAvailability", [NoArgs EXCEPT !.date = Friday, !.subject = Math]),
   BookCall(Math, Alice), BookCall(MathLower, Bob), BookCall(Math, BlankName),
   ToolCall("cancelSlot", SlotArgs(Math)),
   [ToolCall("bookSlot", NoArgs) EXCEPT !.arguments = "malformed"],
   [ToolCall("getAvailability", NoArgs) EXCEPT !.arguments = ""],
   [ToolCall("bookSlot", NoArgs) EXCEPT !.type = "custom"]}
  \cup {AddCall(pw) : pw \in Passwords}
  \cup {BatchCall(pw, Friday, 1) : pw \in Passwords}
  \cup {BatchCall(Secret, <<"?">>, 1), BatchCall(Secret, Saturday, 1)}

UserMessage(content) == [role |-> "user", content |-> content]

AssistantMessage(content) == [role |-> "assistant", content |-> content]

\* The request bodies: `messages` missing, empty, or a history.
Requests ==
  {[hasMessages |-> FALSE, messages |-> <<>>],
   [hasMessages |-> TRUE, messages |-> <<>>],
   [hasMessages |-> TRUE, messages |-> <<UserMessage(<<"h">>)>>],
   [hasMessages |-> TRUE,
    messages |-> <<UserMessage(<<"h">>), AssistantMessage(<<"a">>)>>]}

FreeRow == ScheduleRow(Monday, TenOClock, MathPadded, Teacher, Undefined, Undefined)

BookedRow == ScheduleRow(MondayPadded, TenOClock, MathLower, Teacher, Bob, Phone)

\* The sheets a request may find.
InitialSheets == {<<>>, <<FreeRow>>, <<BookedRow, FreeRow>>}

\* ---------------------------------------------------------------------
\* The chat route: POST of app/api/chat/route.ts.
\* ---------------------------------------------------------------------

\* `loopCount < 5`
MaxLoops == 5

\* The most invocations one completion carries, and the most rows the sheet
\* is let grow to.
MaxToolCalls == 2

MaxRows == 3

VARIABLES
  rows,            \* the data rows of the 'schedule' sheet, in sheet order
  ADMIN_PASSWORD,  \* process.env.ADMIN_PASSWORD
  TZ,              \* the time zone of the process
  pc,              \* where POST stands: "request", "create", "tools", "done"
  request,         \* the body POST was sent
  message,         \* response.choices[0].message of the latest completion
  loopCount,
  toolIdx,         \* how many of message.tool_calls the for loop has taken
  toolCall,        \* the invocation the for loop of this round took last
  result,          \* the content of the tool message pushed for it
  before,          \* the sheet as it was when that invocation was taken
  response,        \* the Response POST returned
  completions,     \* calls of deepseek.chat.completions.create so far
  retrievals,      \* calls of retrieveContext so far
  currentMessages, \* the history POST builds and sends to the provider
  retrieved,       \* what the collaborators of retrieveContext did for POST
  knowledge,       \* the sync job: the pairs getKnowledgeBase returned
  documents,       \* the rows of the 'documents' table
  syncCount,       \* the sync job's `count` of inserted documents
  item,            \* how many pairs the sync job's for loop has taken
  messages,        \* the chat widget: the entries shown
  input,           \* the text in the widget's input box
  isLoading,       \* the widget's loading flag
  sent,            \* the messages of the request the widget has sent
  fetched,         \* what the widget's fetch gave back
  attempts,        \* concurrent bookSlot calls: where each stands, what it read
  saved            \* the attempts whose row.save() has completed, in order

historyVars == <<currentMessages, retrieved>>

syncVars == <<knowledge, documents, syncCount, item>>

widgetVars == <<messages, input, isLoading, sent, fetched>>

raceVars == <<attempts, saved>>

\* The state POST and the store operations called alone do not touch.
apart == <<syncVars, widgetVars, raceVars>>

vars ==
  <<rows, ADMIN_PASSWORD, TZ, pc, request, message, loopCount, toolIdx, toolCall,
    result, before, response, completions, retrievals, historyVars, syncVars,
    widgetVars, raceVars>>

env == <<ADMIN_PASSWORD, TZ>>

NoMessage == [content |-> 0, has_tool_calls |-> FALSE, tool_calls |-> 0]

NoToolCall == [type |-> "none", name |-> "none", arguments |-> "", args |-> NoArgs]

NoResult == [kind |-> "none"]

NoResponse == [status |-> 0, body |-> NoMessage]

NoRequest == [hasMessages |-> FALSE, messages |-> <<>>]

NoFetch == [kind |-> "none"]

\* The values of the state a specification leaves alone.
HistoryIdle == currentMessages = <<>> /\ retrieved = NoRetrieval

SyncIdle == knowledge = <<>> /\ documents = <<>> /\ syncCount = 0 /\ item = 0

WidgetIdle ==
  /\ messages = <<>>
  /\ input = <<>>
  /\ isLoading = FALSE
  /\ sent = <<>>
  /\ fetched = NoFetch

RaceIdle == attempts = <<>> /\ saved = <<>>

ApartIdle == SyncIdle /\ WidgetIdle /\ RaceIdle

\* Response.json({ error: message }, { status: 500 })
ErrorResponse(msg) == [status |-> 500, body |-> [error |-> msg]]

\* Response.json(message)
MessageResponse(msg) == [status |-> 200, body |-> msg]

\* A completion: numbered by the call that produced it; tool_calls is absent
\* (has_tool_calls FALSE) or a list of tool_calls invocations, whose elements
\* the for loop reads one by one.
Completion(n, has, calls) == [content |-> n, has_tool_calls |-> has, tool_calls |-> calls]

Completions(n) ==
  {Completion(n, FALSE, 0)} \cup {Completion(n, TRUE, k) : k \in 0..MaxToolCalls}

Init ==
  /\ rows \in InitialSheets
  /\ ADMIN_PASSWORD \in AdminSecrets
  /\ TZ = ZoneUTC
  /\ pc = "request"
  /\ request = NoRequest
  /\ message = NoMessage
  /\ loopCount = 0
  /\ toolIdx = 0
  /\ toolCall = NoToolCall
  /\ result = NoResult
  /\ before = rows
  /\ response = NoResponse
  /\ completions = 0
  /\ retrievals = 0
  /\ HistoryIdle
  /\ ApartIdle

\* The outer catch: whatever was thrown becomes a 500 response.
Fail(msg) ==
  /\ pc' = "done"
  /\ response' = ErrorResponse(msg)

\* The check with the empty list let through.
NoMessagesProvided_MissingOnly(req) == ~req.hasMessages

\* `!messages || messages.length === 0`
NoMessagesProvided(req) == ~req.hasMessages \/ Len(req.messages) = 0

\* `messages[messages.length - 1]` is undefined when there is no last message,
\* and reading its role then throws a TypeError.
HasLastMessage(req) == req.hasMessages /\ Len(req.messages) > 0

\* The text of the last message when it is a user message, else "".
UserContent(req) ==
  LET lastMessage == req.messages[Len(req.messages)]
  IN  IF lastMessage.role = "user" THEN lastMessage.content ELSE <<>>

\* Lines 22-40: `context` is "" unless the last message is a user message
\* with a text, for which retrieveContext is awaited.
ContextOf(req, outcome) ==
  IF UserContent(req) # <<>> THEN retrieveContext(outcome) ELSE Context(<<>>)

\* Lines 13-40: the body is read and checked, and knowledge is retrieved for
\* a non-empty user text; an error raised by the retrieval would reach the
\* outer catch.
Receive(req, outcome) ==
  /\ pc = "request"
  /\ request' = req
  /\ IF NoMessagesProvided(req)
     THEN /\ Fail("No messages provided")
          /\ UNCHANGED retrievals
     ELSE IF ~HasLastMessage(req)
     THEN /\ Fail("Cannot read properties of undefined (reading 'role')")
          /\ UNCHANGED retrievals
     ELSE /\ retrievals' = IF UserContent(req) # <<>> THEN retrievals + 1 ELSE retrievals
          /\ IF ContextOf(req, outcome).threw
             THEN Fail(ContextOf(req, outcome).value)
             ELSE pc' = "create" /\ UNCHANGED response
  /\ UNCHANGED <<rows, env, message, loopCount, toolIdx, toolCall, result, before,
                 completions, apart>>

\* The loop guard letting one round too many through.
LoopCondition_OffByOne(msg, count) == msg.has_tool_calls /\ count <= MaxLoops

\* `while (message.tool_calls && loopCount < 5)`
LoopCondition(msg, count) == msg.has_tool_calls /\ count < MaxLoops

\* What follows a completion: the loop is entered (the count goes up and the
\* assistant message is pushed) or the message is returned.
Continue(msg) ==
  /\ message' = msg
  /\ IF LoopCondition(msg, loopCount)
     THEN /\ loopCount' = loopCount + 1
          /\ pc' = "tools"
          /\ UNCHANGED response
     ELSE /\ pc' = "done"
          /\ response' = MessageResponse(msg)
          /\ UNCHANGED loopCount
  /\ toolIdx' = 0

\* Lines 149-155: the first completion is asked for; the call may throw.
InitialCall ==
  /\ pc = "create"
  /\ completions' = completions + 1
  /\ \/ \E msg \in Completions(completions + 1) : Continue(msg)
     \/ /\ Fail("Connection error.")
        /\ UNCHANGED <<message, loopCount, toolIdx>>
  /\ UNCHANGED <<rows, env, request, toolCall, result, before, retrievals, apart>>

AddSlotDenied == "Invalid admin password. Cannot add slot."

CreateScheduleDenied == "Invalid admin password. Cannot create schedule."

\* The check written on truthiness, so that an empty password passes.
PasswordRejected_EmptyPasses(adminPassword, secret) ==
  adminPassword # <<>> /\ adminPassword # secret

\* `args.adminPassword !== process.env.ADMIN_PASSWORD`
PasswordRejected(adminPassword, secret) == adminPassword # secret

\* The dispatch whose authorization error carries the configured secret.
Dispatch_EchoesSecret(sheet, secret, zone, call, sheetFails) ==
  LET args == call.args
  IN  CASE call.name = "getAvailability" ->
             WithSheet(sheet, sheetFails, getAvailability(sheet, args.date, args.subject))
        [] call.name = "bookSlot" ->
             WithSheet(sheet, sheetFails,
                       bookSlot(sheet,
                                SlotIdentifier(String(args.date), String(args.time),
                                               String(args.subject), String(args.teacher)),
                                String(args.studentName), String(args.contactInfo)))
        [] call.name = "addSlot" ->
             IF PasswordRejected(args.adminPassword, secret)
             THEN Thrown(sheet, secret)
             ELSE WithSheet(sheet, sheetFails,
                            addSlot(sheet, String(args.date), String(args.time),
                                    String(args.subject), String(args.teacher)))
        [] call.name = "createBatchSchedule" ->
             IF PasswordRejected(args.adminPassword, secret)
             THEN Thrown(sheet, secret)
             ELSE WithSheet(sheet, sheetFails,
                            createBatchSchedule(sheet, zone, String(args.startDate),
                                                args.days, String(args.subject),
                                                String(args.teacher)))
        [] OTHER -> Returned(sheet, [kind |-> "undefined"])

\* The dispatch whose bookSlot branch is a final else: any other name books.
Dispatch_UnknownBooks(sheet, secret, zone, call, sheetFails) ==
  LET args == call.args
  IN  CASE call.name = "getAvailability" ->
             WithSheet(sheet, sheetFails, getAvailability(sheet, args.date, args.subject))
        [] call.name \notin {"getAvailability", "addSlot", "createBatchSchedule"} ->
             WithSheet(sheet, sheetFails,
                       bookSlot(sheet,
                                SlotIdentifier(String(args.date), String(args.time),
                                               String(args.subject), String(args.teacher)),
                                String(args.studentName), String(args.contactInfo)))
        [] call.name = "addSlot" ->
             IF PasswordRejected(args.adminPassword, secret)
             THEN Thrown(sheet, AddSlotDenied)
             ELSE WithSheet(sheet, sheetFails,
                            addSlot(sheet, String(args.date), String(args.time),
                                    String(args.subject), String(args.teacher)))
        [] call.name = "createBatchSchedule" ->
             IF PasswordRejected(args.adminPassword, secret)
             THEN Thrown(sheet, CreateScheduleDenied)
             ELSE WithSheet(sheet, sheetFails,
                            createBatchSchedule(sheet, zone, String(args.startDate),
                                                args.days, String(args.subject),
                                                String(args.teacher)))

\* Lines 181-218: the branch taken for the function name, as a store outcome;
\* a name that is none of the four leaves `result` undefined.
Dispatch(sheet, secret, zone, call, sheetFails) ==
  LET args == call.args
  IN  CASE call.name = "getAvailability" ->
             WithSheet(sheet, sheetFails, getAvailability(sheet, args.date, args.subject))
        [] call.name = "bookSlot" ->
             WithSheet(sheet, sheetFails,
                       bookSlot(sheet,
                                SlotIdentifier(String(args.date), String(args.time),
                                               String(args.subject), String(args.teacher)),
                                String(args.studentName), String(args.contactInfo)))
        [] call.name = "addSlot" ->
             IF PasswordRejected(args.adminPassword, secret)
             THEN Thrown(sheet, AddSlotDenied)
             ELSE WithSheet(sheet, sheetFails,
                            addSlot(sheet, String(args.date), String(args.time),
                                    String(args.subject), String(args.teacher)))
        [] call.name = "createBatchSchedule" ->
             IF PasswordRejected(args.adminPassword, secret)
             THEN Thrown(sheet, CreateScheduleDenied)
             ELSE WithSheet(sheet, sheetFails,
                            createBatchSchedule(sheet, zone, String(args.startDate),
                                                args.days, String(args.subject),
                                                String(args.teacher)))
        [] OTHER -> Returned(sheet, [kind |-> "undefined"])

\* Lines 219-222: a throw inside the try becomes { error: message }.
ToolResult(outcome) == IF outcome.threw THEN [error |-> outcome.value] ELSE outcome.value

\* JSON.parse(functionArgs) throws on text that is no JSON.
ParseFails(call) == call.arguments = "malformed"

\* The turn of the loop run on the rows read before the previous invocation.
ExecuteTool_StaleSheet(call, sheetFails) ==
  /\ pc = "tools"
  /\ toolIdx < message.tool_calls
  /\ toolCall' = call
  /\ before' = rows
  /\ IF call.type # "function"
     THEN /\ toolIdx' = toolIdx + 1
          /\ result' = NoResult
          /\ UNCHANGED <<rows, pc, response>>
     ELSE IF ParseFails(call)
     THEN /\ Fail("Unexpected token in JSON")
          /\ result' = NoResult
          /\ UNCHANGED <<rows, toolIdx>>
     ELSE LET outcome == Dispatch(before, ADMIN_PASSWORD, TZ, call, sheetFails)
          IN  /\ Len(outcome.rows) <= MaxRows
              /\ rows' = outcome.rows
              /\ result' = ToolResult(outcome)
              /\ toolIdx' = toolIdx + 1
              /\ UNCHANGED <<pc, response>>
  /\ UNCHANGED <<env, request, message, loopCount, completions, retrievals, apart>>

\* Lines 167-230, one turn of the for loop over message.tool_calls.
ExecuteTool(call, sheetFails) ==
  /\ pc = "tools"
  /\ toolIdx < message.tool_calls
  /\ toolCall' = call
  /\ before' = rows
  /\ IF call.type # "function"
     THEN /\ toolIdx' = toolIdx + 1
          /\ result' = NoResult
          /\ UNCHANGED <<rows, pc, response>>
     ELSE IF ParseFails(call)
     THEN /\ Fail("Unexpected token in JSON")
          /\ result' = NoResult
          /\ UNCHANGED <<rows, toolIdx>>
     ELSE LET outcome == Dispatch(rows, ADMIN_PASSWORD, TZ, call, sheetFails)
          IN  /\ Len(outcome.rows) <= MaxRows
              /\ rows' = outcome.rows
              /\ result' = ToolResult(outcome)
              /\ toolIdx' = toolIdx + 1
              /\ UNCHANGED <<pc, response>>
  /\ UNCHANGED <<env, request, message, loopCount, completions, retrievals, apart>>

\* The re-invocation that, when the provider fails, puts the sheet back as
\* it was before the round's last invocation.
Reinvoke_UndoesLast ==
  /\ pc = "tools"
  /\ toolIdx = message.tool_calls
  /\ completions' = completions + 1
  /\ toolCall' = NoToolCall
  /\ result' = NoResult
  /\ before' = rows
  /\ \/ /\ \E msg \in Completions(completions + 1) : Continue(msg)
        /\ UNCHANGED rows
     \/ /\ Fail("Connection error.")
        /\ rows' = before
        /\ UNCHANGED <<message, loopCount, toolIdx>>
  /\ UNCHANGED <<env, request, retrievals, apart>>

\* Lines 232-239: with the for loop over (its toolCall and result go out of
\* scope), the completion is asked for again.
Reinvoke ==
  /\ pc = "tools"
  /\ toolIdx = message.tool_calls
  /\ completions' = completions + 1
  /\ toolCall' = NoToolCall
  /\ result' = NoResult
  /\ before' = rows
  /\ \/ \E msg \in Completions(completions + 1) : Continue(msg)
     \/ /\ Fail("Connection error.")
        /\ UNCHANGED <<message, loopCount, toolIdx>>
  /\ UNCHANGED <<rows, env, request, retrievals, apart>>

\* POST with its history left out of the state.
Next ==
  \/ \E req \in Requests, outcome \in RetrievalOutcomes :
       Receive(req, outcome) /\ UNCHANGED historyVars
  \/ InitialCall /\ UNCHANGED historyVars
  \/ \E call \in ToolCalls, sheetFails \in BOOLEAN :
       ExecuteTool(call, sheetFails) /\ UNCHANGED historyVars
  \/ Reinvoke /\ UNCHANGED historyVars

Spec == Init /\ [][Next]_vars

\* ---------------------------------------------------------------------
\* The store operations called one after another on a sheet of any content
\* (sequential callers of lib/googleSheets.ts).
\* ---------------------------------------------------------------------

Science == <<"S">>

\* The most rows of a sheet the store operations start from, and the most
\* days a batch is asked for.
MaxSheet == 2

MaxDays == 7

StoreRows ==
  {ScheduleRow(date, TenOClock, subject, Teacher, student, <<>>) :
     date \in {MondayPadded, Friday},
     subject \in {MathPadded, Science},
     student \in {Undefined, BlankName, Bob}}

RECURSIVE SheetsOfLength(_)
SheetsOfLength(n) ==
  IF n = 0 THEN {<<>>}
  ELSE {Append(sheet, row) : sheet \in SheetsOfLength(n - 1), row \in StoreRows}

StoreSheets == UNION {SheetsOfLength(n) : n \in 0..MaxSheet}

InitStore ==
  /\ rows \in StoreSheets
  /\ ADMIN_PASSWORD = Secret
  /\ TZ = ZoneUTC
  /\ pc = "store"
  /\ request = NoRequest
  /\ message = NoMessage
  /\ loopCount = 0
  /\ toolIdx = 0
  /\ toolCall = NoToolCall
  /\ result = NoResult
  /\ before = rows
  /\ response = NoResponse
  /\ completions = 0
  /\ retrievals = 0
  /\ HistoryIdle
  /\ ApartIdle

\* One store operation called and awaited: the sheet and what the caller got.
StoreCall(call, outcome) ==
  /\ pc \in {"store", "batch"}
  /\ toolCall' = call
  /\ before' = rows
  /\ rows' = outcome.rows
  /\ result' = ToolResult(outcome)
  /\ UNCHANGED <<env, pc, request, message, loopCount, toolIdx, response, completions,
                 retrievals, historyVars, apart>>

Query(date, subject) ==
  StoreCall(ToolCall("getAvailability", [NoArgs EXCEPT !.date = date, !.subject = subject]),
            getAvailability(rows, date, subject))

Book(date, subject, studentName) ==
  StoreCall(ToolCall("bookSlot",
                     [NoArgs EXCEPT !.date = date, !.time = TenOClock,
                                    !.subject = subject, !.teacher = Teacher,
                                    !.studentName = studentName, !.contactInfo = Phone]),
            bookSlot(rows, SlotIdentifier(date, TenOClock, subject, Teacher),
                     studentName, Phone))

Add(date, subject) ==
  /\ Len(rows) < MaxRows
  /\ StoreCall(ToolCall("addSlot",
                        [NoArgs EXCEPT !.date = date, !.time = TenOClock,
                                       !.subject = subject, !.teacher = Teacher]),
               addSlot(rows, date, TenOClock, subject, Teacher))

NextStore ==
  \/ \E date \in {Monday, Friday}, subject \in {MathLower, <<" ", "s">>} :
       Query(date, subject)
  \/ \E date \in {Monday}, subject \in {MathLower, Science},
        studentName \in {Alice, BlankName} :
       Book(date, subject, studentName)
  \/ \E date \in {Monday}, subject \in {Math} : Add(date, subject)

SpecStore == InitStore /\ [][NextStore]_vars

\* createBatchSchedule called on a short sheet, in every time zone.
March7 == <<"2", "0", "2", "5", "-", "0", "3", "-", "0", "7">>

March28 == <<"2", "0", "2", "5", "-", "0", "3", "-", "2", "8">>

October24 == <<"2", "0", "2", "5", "-", "1", "0", "-", "2", "4">>

StartDates == {Monday, Friday, Saturday, March7, March28, October24, <<"?">>}

InitBatch ==
  /\ rows \in {<<>>, <<FreeRow>>}
  /\ ADMIN_PASSWORD = Secret
  /\ TZ \in TimeZones
  /\ pc = "batch"
  /\ request = NoRequest
  /\ message = NoMessage
  /\ loopCount = 0
  /\ toolIdx = 0
  /\ toolCall = NoToolCall
  /\ result = NoResult
  /\ before = rows
  /\ response = NoResponse
  /\ completions = 0
  /\ retrievals = 0
  /\ HistoryIdle
  /\ ApartIdle

Batch(startDate, days) ==
  /\ Len(rows) < MaxRows
  /\ StoreCall(BatchCall(Secret, startDate, days),
               createBatchSchedule(rows, TZ, startDate, days, Math, Teacher))

NextBatch == \E startDate \in StartDates, days \in 0..MaxDays \cup {NaN} : Batch(startDate, days)

SpecBatch == InitBatch /\ [][NextBatch]_vars

\* ---------------------------------------------------------------------
\* The sheet grown from nothing by addSlot, createBatchSchedule and bookSlot.
\* ---------------------------------------------------------------------

InitGrown ==
  /\ rows = <<>>
  /\ ADMIN_PASSWORD = Secret
  /\ TZ = ZoneUTC
  /\ pc = "store"
  /\ request = NoRequest
  /\ message = NoMessage
  /\ loopCount = 0
  /\ toolIdx = 0
  /\ toolCall = NoToolCall
  /\ result = NoResult
  /\ before = rows
  /\ response = NoResponse
  /\ completions = 0
  /\ retrievals = 0
  /\ HistoryIdle
  /\ ApartIdle

NextGrown ==
  \/ \E date \in {Monday, Friday}, subject \in {MathLower, <<" ", "s">>} :
       Query(date, subject)
  \/ \E date \in {Monday}, subject \in {MathLower, Science},
        studentName \in {Alice, BlankName} :
       Book(date, subject, studentName)
  \/ \E date \in {Monday, MondayPadded}, subject \in {Math, MathLower} : Add(date, subject)
  \/ Batch(Monday, 1)

SpecGrown == InitGrown /\ [][NextGrown]_vars

\* ---------------------------------------------------------------------
\* bookSlot called once, with any slot identifier and any contact text.
\* ---------------------------------------------------------------------

\* The longest contact text tried.
MaxContact == 3

ContactChars == {" ", "\n", "\r", "\"", "'", "=", "+", "-", "a"}

RECURSIVE TextsOfLength(_)
TextsOfLength(n) ==
  IF n = 0 THEN {<<>>}
  ELSE {Append(text, c) : text \in TextsOfLength(n - 1), c \in ContactChars}

ContactInputs == {Undefined} \cup UNION {TextsOfLength(n) : n \in 0..MaxContact}

Eleven == <<"1", "1", ":", "0", "0">>

\* A row of another teacher, whose name differs from "m" by its case only.
CapitalTeacherRow == ScheduleRow(Monday, TenOClock, Math, <<"M">>, Undefined, Undefined)

BookingSheets ==
  {<<FreeRow>>, <<BookedRow, FreeRow>>, <<BookedRow>>, <<CapitalTeacherRow>>,
   <<CapitalTeacherRow, FreeRow>>}

\* Identifiers that differ from the rows by padding, by case or by content,
\* field by field.
SlotInputs ==
  {SlotIdentifier(date, time, subject, teacher) :
     date \in {MondayPadded, Friday},
     time \in {<<" ">> \o TenOClock, Eleven},
     subject \in {MathLower, Science},
     teacher \in {<<" ">> \o Teacher, <<"m">>, <<"y">>}}

InitBooking ==
  /\ rows \in BookingSheets
  /\ ADMIN_PASSWORD = Secret
  /\ TZ = ZoneUTC
  /\ pc = "store"
  /\ request = NoRequest
  /\ message = NoMessage
  /\ loopCount = 0
  /\ toolIdx = 0
  /\ toolCall = NoToolCall
  /\ result = NoResult
  /\ before = rows
  /\ response = NoResponse
  /\ completions = 0
  /\ retrievals = 0
  /\ HistoryIdle
  /\ ApartIdle

\* The first call of bookSlot on the sheet.
BookOnce(slot, studentName, contactInfo) ==
  /\ toolCall = NoToolCall
  /\ StoreCall(ToolCall("bookSlot",
                        [NoArgs EXCEPT !.date = slot.date, !.time = slot.time,
                                       !.subject = slot.subject, !.teacher = slot.teacher,
                                       !.studentName = studentName,
                                       !.contactInfo = contactInfo]),
               bookSlot(rows, slot, studentName, contactInfo))

NextBooking ==
  \/ \E contactInfo \in ContactInputs :
       BookOnce(SlotIdentifier(Monday, TenOClock, MathLower, Teacher), Alice, contactInfo)
  \/ \E slot \in SlotInputs : BookOnce(slot, Alice, Phone)

SpecBooking == InitBooking /\ [][NextBooking]_vars

\* One request served from a sheet with one free row, the secret configured.
InitOneSheet == Init /\ rows = <<FreeRow>> /\ ADMIN_PASSWORD = Secret

\* The scheduling of an awaited call: a call that is pending returns, so a
\* step that is possible is eventually taken.
FairSpec == InitOneSheet /\ [][Next]_vars /\ WF_vars(Next)

\* ---------------------------------------------------------------------
\* POST with its history: currentMessages as lines 144-147, 165 and 225-229
\* build it.
\* ---------------------------------------------------------------------

\* { role: "system", content: systemPrompt }: of the prompt, the context put
\* into it.
SystemMessage(context) == [role |-> "system", content |-> context]

\* toolCall.id of the k-th invocation of the n-th completion.
ToolCallId(n, k) == <<n, k>>

\* The completion message as pushed: it lists msg.tool_calls invocations,
\* whose identifiers are ToolCallId(msg.content, 1) and so on.
AssistantTurn(msg) ==
  [role |-> "assistant", content |-> msg.content, tool_calls |-> msg.tool_calls]

\* { role: "tool", tool_call_id: toolCall.id, content: JSON.stringify(result) }
ToolMessage(id, content) == [role |-> "tool", tool_call_id |-> id, content |-> content]

\* Line 165, on entering the loop.
PushAssistant ==
  currentMessages' = IF pc' = "tools"
                     THEN Append(currentMessages, AssistantTurn(message'))
                     ELSE currentMessages

ReceiveWithHistory(req, outcome) ==
  /\ Receive(req, outcome)
  /\ retrieved' = IF HasLastMessage(req) /\ UserContent(req) # <<>>
                  THEN outcome ELSE NoRetrieval
  /\ currentMessages' = IF pc' = "create"
                        THEN <<SystemMessage(ContextOf(req, outcome).value)>>
                             \o req.messages
                        ELSE <<>>

InitialCallWithHistory ==
  /\ InitialCall
  /\ PushAssistant
  /\ UNCHANGED retrieved

\* Lines 225-229: reached unless the invocation was skipped or its
\* arguments did not parse.
ExecuteToolWithHistory(call, sheetFails) ==
  /\ ExecuteTool(call, sheetFails)
  /\ currentMessages' =
       IF call.type # "function" \/ ParseFails(call) THEN currentMessages
       ELSE Append(currentMessages,
                   ToolMessage(ToolCallId(message.content, toolIdx + 1), result'))
  /\ UNCHANGED retrieved

ReinvokeWithHistory ==
  /\ Reinvoke
  /\ PushAssistant
  /\ UNCHANGED retrieved

\* The invocations tried with the history kept: one that is executed, one of
\* another type, one whose arguments are no JSON.
HistoryCalls ==
  {ToolCall("getAvailability",
            [NoArgs EXCEPT !.date = MondayPadded, !.subject = MathLower]),
   [ToolCall("bookSlot", NoArgs) EXCEPT !.arguments = "malformed"],
   [ToolCall("bookSlot", NoArgs) EXCEPT !.type = "custom"]}

\* One request with one document retrieved for it, and every invocation of
\* HistoryCalls.
NextHistory ==
  \/ \E req \in Requests :
       ReceiveWithHistory(req, Retrieval("resolves", "data", TRUE, <<DocOne>>))
  \/ InitialCallWithHistory
  \/ \E call \in HistoryCalls : ExecuteToolWithHistory(call, FALSE)
  \/ ReinvokeWithHistory

SpecHistory == InitOneSheet /\ [][NextHistory]_vars

\* One request with every outcome of the retrieval, and tool rounds of
\* getAvailability alone.
ContextCalls ==
  {ToolCall("getAvailability",
            [NoArgs EXCEPT !.date = MondayPadded, !.subject = MathLower])}

NextContext ==
  \/ \E req \in Requests, outcome \in RetrievalOutcomes : ReceiveWithHistory(req, outcome)
  \/ InitialCallWithHistory
  \/ \E call \in ContextCalls : ExecuteToolWithHistory(call, FALSE)
  \/ ReinvokeWithHistory

SpecContext == InitOneSheet /\ [][NextContext]_vars

\* ---------------------------------------------------------------------
\* The knowledge sync job: GET of app/api/sync/route.ts.
\* ---------------------------------------------------------------------

\* The most pairs the 'knowledge' sheet holds.
MaxPairs == 2

KnowledgeBaseEntry(question, answer) == [question |-> question, answer |-> answer]

\* Pairs with both texts, and pairs with an empty cell (`?? ''`).
Entries ==
  {KnowledgeBaseEntry(<<"f">>, <<"g">>), KnowledgeBaseEntry(<<"k">>, <<"l">>),
   KnowledgeBaseEntry(<<>>, <<"g">>), KnowledgeBaseEntry(<<"f">>, <<>>)}

RECURSIVE KnowledgeOfLength(_)
KnowledgeOfLength(n) ==
  IF n = 0 THEN {<<>>}
  ELSE {Append(kb, entry) : kb \in KnowledgeOfLength(n - 1), entry \in Entries}

KnowledgeBases == UNION {KnowledgeOfLength(n) : n \in 0..MaxPairs}

\* `Q: ${item.question}\nA: ${item.answer}`
Content(entry) ==
  <<"Q", ":", " ">> \o entry.question \o <<"\n", "A", ":", " ">> \o entry.answer

\* The row inserted: embedding is result.embedding?.values ?? [].
Document(entry, embedding) ==
  [content |-> Content(entry), embedding |-> embedding,
   metadata |-> [question |-> entry.question]]

\* A row left in the table by an earlier sync.
OldDocument == Document(KnowledgeBaseEntry(<<"o">>, <<"o">>), "values")

\* Response.json({ message: ... }): of the message, the count it reports, or
\* none (the sheet had no rows).
SyncResponse(text, reported) ==
  [status |-> 200, body |-> [message |-> text, count |-> reported]]

InitSync ==
  /\ rows = <<>>
  /\ ADMIN_PASSWORD = Secret
  /\ TZ = ZoneUTC
  /\ pc = "sync"
  /\ request = NoRequest
  /\ message = NoMessage
  /\ loopCount = 0
  /\ toolIdx = 0
  /\ toolCall = NoToolCall
  /\ result = NoResult
  /\ before = rows
  /\ response = NoResponse
  /\ completions = 0
  /\ retrievals = 0
  /\ HistoryIdle
  /\ knowledge = <<>>
  /\ documents \in {<<>>, <<OldDocument>>}
  /\ syncCount = 0
  /\ item = 0
  /\ WidgetIdle
  /\ RaceIdle

\* What a step of GET leaves alone.
syncApart ==
  <<rows, env, request, message, loopCount, toolIdx, toolCall, result, before,
    completions, retrievals, historyVars, widgetVars, raceVars>>

\* Lines 14-33: the pairs are read (getKnowledgeBase may throw), an empty
\* list is reported at once, else the table is cleared (a delete error is
\* logged and the job goes on) and the count starts at 0.
SyncLoad(kb, loadFails, deleteFails) ==
  /\ pc = "sync"
  /\ IF loadFails
     THEN /\ Fail("Sheet 'knowledge' not found")
          /\ UNCHANGED <<knowledge, documents, syncCount, item>>
     ELSE /\ knowledge' = kb
          /\ IF Len(kb) = 0
             THEN /\ pc' = "done"
                  /\ response' = SyncResponse("No knowledge found in Google Sheets.", 0)
                  /\ UNCHANGED <<documents, syncCount, item>>
             ELSE /\ pc' = "syncing"
                  /\ documents' = IF deleteFails THEN documents ELSE <<>>
                  /\ syncCount' = 0
                  /\ item' = 0
                  /\ UNCHANGED response
  /\ UNCHANGED syncApart

\* Lines 34-55, one turn of the for loop: a pair with an empty text is
\* passed over; embedContent is awaited (it may reject, inside no try of its
\* own) and the row is inserted, an insert error being logged.
SyncItem(embed, insert) ==
  /\ pc = "syncing"
  /\ item < Len(knowledge)
  /\ LET entry == knowledge[item + 1]
     IN  IF entry.question = <<>> \/ entry.answer = <<>>
         THEN /\ item' = item + 1
              /\ UNCHANGED <<documents, syncCount, pc, response>>
         ELSE IF embed = "rejects"
         THEN /\ Fail("embedContent failed")
              /\ UNCHANGED <<documents, syncCount, item>>
         ELSE IF insert = "error"
         THEN /\ item' = item + 1
              /\ UNCHANGED <<documents, syncCount, pc, response>>
         ELSE /\ item' = item + 1
              /\ documents' = Append(documents, Document(entry, embed))
              /\ syncCount' = syncCount + 1
              /\ UNCHANGED <<pc, response>>
  /\ UNCHANGED <<knowledge, syncApart>>

\* Lines 57-59: the loop is over and the count is reported.
SyncReport ==
  /\ pc = "syncing"
  /\ item = Len(knowledge)
  /\ pc' = "done"
  /\ response' = SyncResponse("Successfully synced", syncCount)
  /\ UNCHANGED <<syncVars, syncApart>>

NextSync ==
  \/ \E kb \in KnowledgeBases, loadFails \in BOOLEAN, deleteFails \in BOOLEAN :
       SyncLoad(kb, loadFails, deleteFails)
  \/ \E embed \in {"values", "empty", "rejects"}, insert \in {"ok", "error"} :
       SyncItem(embed, insert)
  \/ SyncReport

SpecSync == InitSync /\ [][NextSync]_vars

\* ---------------------------------------------------------------------
\* Concurrent calls of bookSlot, each from a chat request of its own.
\* ---------------------------------------------------------------------

\* The number of booking attempts in flight.
MaxAttempts == 2

Attempts == 1..MaxAttempts

\* The slot every attempt asks for.
RaceSlot == SlotIdentifier(Monday, TenOClock, MathLower, Teacher)

\* A row whose student cell holds a blank: the slot is free.
ClearedRow == ScheduleRow(Monday, TenOClock, Math, Teacher, BlankName, <<>>)

RaceSheets ==
  {<<FreeRow>>, <<ClearedRow>>, <<BookedRow, FreeRow>>, <<CapitalTeacherRow, FreeRow>>,
   <<FreeRow, BookedRow>>, <<BookedRow>>}

\* A call of bookSlot: where it is ("start", "saving" between the rows read
\* and the row saved, "done"), its student, the rows getRows gave it, what it
\* makes of them, and the attempts whose save had completed when it read.
Attempt(at, studentName, snapshot, outcome, seen) ==
  [pc |-> at, studentName |-> studentName, snapshot |-> snapshot, outcome |-> outcome,
   seen |-> seen]

NotStarted == Attempt("start", <<>>, <<>>, Thrown(<<>>, ""), <<>>)

InitRace ==
  /\ rows \in RaceSheets
  /\ ADMIN_PASSWORD = Secret
  /\ TZ = ZoneUTC
  /\ pc = "race"
  /\ request = NoRequest
  /\ message = NoMessage
  /\ loopCount = 0
  /\ toolIdx = 0
  /\ toolCall = NoToolCall
  /\ result = NoResult
  /\ before = rows
  /\ response = NoResponse
  /\ completions = 0
  /\ retrievals = 0
  /\ HistoryIdle
  /\ SyncIdle
  /\ WidgetIdle
  /\ attempts = [p \in Attempts |-> NotStarted]
  /\ saved = <<>>

\* What the attempts leave alone.
raceApart ==
  <<env, pc, request, message, loopCount, toolIdx, toolCall, result, before, response,
    completions, retrievals, historyVars, syncVars, widgetVars>>

\* Lines 160-176: getRows resolves with the sheet as it is, and the attempt
\* finds its row and tests the student in it; an attempt that throws is over.
ReadRows(p, studentName) ==
  /\ pc = "race"
  /\ attempts[p].pc = "start"
  /\ LET outcome == bookSlot(rows, RaceSlot, studentName, Phone)
     IN  attempts' = [attempts EXCEPT ![p] =
                        Attempt(IF outcome.threw THEN "done" ELSE "saving",
                                studentName, rows, outcome, saved)]
  /\ UNCHANGED <<rows, saved, raceApart>>

\* Lines 178-182: save() writes the row the attempt holds, as it has set it,
\* over the row of the sheet, and the attempt returns its success.
SaveRow(p) ==
  /\ pc = "race"
  /\ attempts[p].pc = "saving"
  /\ LET i == FindIndex(attempts[p].snapshot, RaceSlot)
     IN  rows' = [rows EXCEPT ![i] = attempts[p].outcome.rows[i]]
  /\ saved' = Append(saved, p)
  /\ attempts' = [attempts EXCEPT ![p].pc = "done"]
  /\ UNCHANGED raceApart

NextRace ==
  \/ \E p \in Attempts, studentName \in {Alice, Bob} : ReadRows(p, studentName)
  \/ \E p \in Attempts : SaveRow(p)

SpecRace == InitRace /\ [][NextRace]_vars

\* ---------------------------------------------------------------------
\* The chat widget: sendMessage of components/ChatWidget.tsx.
\* ---------------------------------------------------------------------

\* The most entries the widget is let show.
MaxEntries == 6

\* The JSON value null.
Null == <<"<null>">>

GenericFailure == <<"Alamak! Something went wrong. Try again later.">>

Entry(role, content) == [role |-> role, content |-> content]

\* What `await fetch(...)` and `await response.json()` give: fetch rejects
\* (the network failed), the body is no JSON, or `data` with its `error` and
\* `content` members (undefined when absent).
Fetched(kind, error, content) == [kind |-> kind, error |-> error, content |-> content]

\* The bodies POST returns, Response.json(message) with a text or with null
\* content (a completion that requests tools, as at the ceiling) and
\* Response.json({ error }), and the two failures of the transport.
FetchOutcomes ==
  {Fetched("json", Undefined, <<"o", "k">>),
   Fetched("json", Undefined, Null),
   Fetched("json", <<"C", "o", "n", "n", "e", "c", "t", "i", "o", "n">>, Undefined),
   Fetched("rejects", Undefined, Undefined),
   Fetched("notjson", Undefined, Undefined)}

\* `if (value)` of a text, null or undefined.
Truthy(value) == value \notin {Undefined, Null, <<>>}

\* The try block throwing with the test of data.error left out.
FetchThrows_IgnoresErrorField(reply) == reply.kind # "json"

\* Lines 302-314: the try block throws when fetch or response.json() rejects
\* or when data.error is set.
FetchThrows(reply) == reply.kind # "json" \/ Truthy(reply.error)

InitWidget ==
  /\ rows = <<>>
  /\ ADMIN_PASSWORD = Secret
  /\ TZ = ZoneUTC
  /\ pc = "widget"
  /\ request = NoRequest
  /\ message = NoMessage
  /\ loopCount = 0
  /\ toolIdx = 0
  /\ toolCall = NoToolCall
  /\ result = NoResult
  /\ before = rows
  /\ response = NoResponse
  /\ completions = 0
  /\ retrievals = 0
  /\ HistoryIdle
  /\ SyncIdle
  /\ WidgetIdle
  /\ RaceIdle

\* What the widget leaves alone.
widgetApart ==
  <<rows, env, pc, request, message, loopCount, toolIdx, toolCall, result, before,
    response, completions, retrievals, historyVars, syncVars, raceVars>>

\* onChange of the input box, which is disabled while loading.
Type(text) ==
  /\ pc = "widget"
  /\ ~isLoading
  /\ input' = text
  /\ UNCHANGED <<messages, isLoading, sent, fetched, widgetApart>>

\* Lines 294-308: sendMessage up to the awaited fetch. It returns at once on
\* a blank input, and neither the Enter key nor the button reaches it while
\* loading.
Send ==
  /\ pc = "widget"
  /\ ~isLoading
  /\ Trim(input) # <<>>
  /\ Len(messages) + 2 <= MaxEntries
  /\ messages' = Append(messages, Entry("user", input))
  /\ input' = <<>>
  /\ isLoading' = TRUE
  /\ sent' = Append(messages, Entry("user", input))
  /\ fetched' = NoFetch
  /\ UNCHANGED widgetApart

\* Lines 310-323: sendMessage from the fetch's outcome on.
Settle(reply) ==
  /\ pc = "widget"
  /\ isLoading
  /\ fetched' = reply
  /\ messages' = IF FetchThrows(reply)
                 THEN Append(messages, Entry("assistant", GenericFailure))
                 ELSE Append(messages, Entry("assistant", reply.content))
  /\ isLoading' = FALSE
  /\ UNCHANGED <<input, sent, widgetApart>>

NextWidget ==
  \/ \E text \in {<<"h">>, <<" ">>, <<"h", " ">>} : Type(text)
  \/ Send
  \/ \E reply \in FetchOutcomes : Settle(reply)

SpecWidget == InitWidget /\ [][NextWidget]_vars

\* ---------------------------------------------------------------------
\* Properties of the chat route.
\* ---------------------------------------------------------------------

AdminTools == {"addSlot", "createBatchSchedule"}

\* The for loop dispatched toolCall: it is a function call whose arguments
\* parsed.
Dispatched == toolCall.type = "function" /\ toolCall.arguments # "malformed"

IsError(res) == "error" \in DOMAIN res

\* The slot identifier an invocation names.
SlotOf(args) == SlotIdentifier(args.date, args.time, args.subject, args.teacher)

\* The message thrown for a rejected password, by tool.
DeniedMessage(name) == IF name = "addSlot" THEN AddSlotDenied ELSE CreateScheduleDenied

\* C1 as stated: one request issues at most 5 completion calls in total, the
\* first call and every re-invocation counted.
C1_AtMostFiveCompletions == completions <= MaxLoops

\* C1 as amended: one request issues at most 6 completion calls, the first
\* call and at most 5 re-invocations (one per tool round), however many
\* responses in a row request tools.
C1_AtMostSixCompletions ==
  /\ completions <= MaxLoops + 1
  /\ pc \in {"tools", "done"} /\ completions > 0 => completions <= loopCount + 1

C1_SixCompletionsReached ==
  pc = "done" /\ completions = MaxLoops + 1 /\ loopCount = MaxLoops

\* C3: addSlot or createBatchSchedule dispatched with an adminPassword that
\* differs from the configured secret (the empty string and an absent
\* argument included) leaves the sheet as it was and gives the authorization
\* error as its tool result.
C3_WrongPasswordNoMutation ==
  (/\ Dispatched
   /\ toolCall.name \in AdminTools
   /\ toolCall.args.adminPassword # ADMIN_PASSWORD)
  => /\ rows = before
     /\ IsError(result)
     /\ result.error = DeniedMessage(toolCall.name)

C3_EmptyPasswordDenied ==
  /\ Dispatched
  /\ toolCall.name = "addSlot"
  /\ ADMIN_PASSWORD = Secret
  /\ toolCall.args.adminPassword = <<>>
  /\ IsError(result)
  /\ Len(rows) < MaxRows

\* C4: when the first completion carries no tool invocation (the list absent
\* or empty), that completion is returned after exactly one completion call
\* and no tool is executed.
C4_ToolFreeFirstResponseReturned ==
  (message.content = 1 /\ (~message.has_tool_calls \/ message.tool_calls = 0))
  => /\ pc = "done"
     /\ response = MessageResponse(message)
     /\ completions = 1
     /\ loopCount = 0
     /\ toolCall = NoToolCall

\* C5: the loop terminates: there are at most 5 tool rounds, every request is
\* answered, and the completion that follows the fifth round is returned as
\* the answer even when it still requests tools.
C5_TerminatesWithinFiveRounds ==
  /\ [](loopCount <= MaxLoops)
  /\ <>(pc = "done")
  /\ [](message.content = MaxLoops + 1
        => pc = "done" /\ response = MessageResponse(message))

C5_CeilingReturnsToolRequest ==
  /\ pc = "done"
  /\ loopCount = MaxLoops
  /\ response.status = 200
  /\ response.body.has_tool_calls
  /\ response.body.tool_calls > 0

\* The provider's failure, as the outer catch answers it.
ProviderError == ErrorResponse("Connection error.")

\* C24: when the completion call that follows a round of tool invocations
\* fails, the request is answered with status 500 and the sheet is left as
\* the invocations made it: the failing step changes no row.
C24_NoRollbackOnProviderFailure ==
  [][(pc = "tools" /\ toolIdx = message.tool_calls /\ response'.status = 500)
       => /\ pc' = "done"
          /\ response' = ProviderError
          /\ rows' = rows]_vars

\* A request answered 500 after a round in which Alice was booked: the
\* booking is in the sheet.
C24_BookingKeptAfterError ==
  /\ pc = "done"
  /\ response = ProviderError
  /\ loopCount >= 1
  /\ \E i \in 1..Len(rows) : rows[i].Student_Name = Alice

\* C6: an error raised while one tool invocation is handled never becomes a
\* server error: a 500 response comes only from a malformed request or from a
\* failed completion call.
C6_OnlyProviderOrRequestErrorsAbort ==
  (pc = "done" /\ response.status = 500)
  => response.body.error \in {"No messages provided", "Connection error."}

\* C9: a request whose message list is missing or empty is answered 500 with
\* an error message, and no completion call, no retrieval and no tool
\* execution happens for it.
C9_EmptyRequestRejected ==
  (pc # "request" /\ (~request.hasMessages \/ Len(request.messages) = 0))
  => /\ pc = "done"
     /\ response.status = 500
     /\ response.body.error = "No messages provided"
     /\ completions = 0
     /\ retrievals = 0
     /\ loopCount = 0
     /\ toolCall = NoToolCall
     /\ rows = before

C9_EmptyListRejected ==
  /\ pc = "done"
  /\ request.hasMessages
  /\ Len(request.messages) = 0
  /\ response.status = 500

\* C10: with no admin secret configured, every addSlot and
\* createBatchSchedule invocation fails with an error and leaves the sheet
\* as it was, whatever adminPassword it carries, an absent one included.
C10_UnsetSecretDeniesAll ==
  (ADMIN_PASSWORD = Undefined /\ Dispatched /\ toolCall.name \in AdminTools)
  => rows = before /\ IsError(result)

\* Values the admin secret may be configured to in another deployment.
ConfigurableSecrets == AdminSecrets \cup {<<>>, <<"z">>}

\* C13: the tool result and the sheet left by an admin invocation whose
\* password is rejected are the same under every configured secret that
\* rejects that password, with the sheet reachable or not, so nothing of the
\* secret is in the tool message; and the response returned is the
\* completion as the provider gave it.
C13_DenialIndependentOfSecret ==
  /\ (/\ Dispatched
      /\ toolCall.name \in AdminTools
      /\ toolCall.args.adminPassword # ADMIN_PASSWORD)
     => \A secret \in ConfigurableSecrets, sheetFails \in BOOLEAN :
          secret # toolCall.args.adminPassword
          => /\ ToolResult(Dispatch(before, secret, TZ, toolCall, sheetFails)) = result
             /\ Dispatch(before, secret, TZ, toolCall, sheetFails).rows = rows
  /\ (pc = "done" /\ response.status = 200) => response = MessageResponse(message)

C13_WrongGuessDenied ==
  /\ Dispatched
  /\ toolCall.name = "createBatchSchedule"
  /\ toolCall.args.adminPassword = WrongGuess
  /\ ADMIN_PASSWORD = Secret
  /\ IsError(result)
  /\ rows = before

\* The names of the tools declared to the provider.
RegisteredTools == {"getAvailability", "bookSlot", "addSlot", "createBatchSchedule"}

\* C16: an invocation whose name is not one of the four tools runs no store
\* operation (its result stays undefined and the sheet is as it was), and
\* the loop goes on: the request is not ended, the invocation counts as
\* taken, and the rest of the turn or the next completion call follows.
C16_UnknownToolIgnored ==
  (Dispatched /\ toolCall.name \notin RegisteredTools /\ toolCall.name # "none")
  => /\ rows = before
     /\ result = [kind |-> "undefined"]
     /\ pc = "tools"
     /\ response = NoResponse
     /\ toolIdx \in 1..message.tool_calls

\* An unknown name first in a turn of two, on a sheet with a free row its
\* arguments name.
C16_UnknownFirstOfTwo ==
  /\ Dispatched
  /\ toolCall.name = "cancelSlot"
  /\ toolIdx = 1
  /\ message.tool_calls = 2
  /\ pc = "tools"
  /\ FindIndex(rows, SlotOf(toolCall.args)) > 0

\* C20: the invocations of a turn are taken one at a time in the order
\* listed, and each acts on the sheet exactly as the invocation before it
\* left it: its tool result and the sheet after it are those of the store
\* operation run on that sheet.
C20_InvocationsRunInOrder ==
  /\ [][(pc = "tools" /\ pc' = "tools" /\ completions' = completions)
        => (toolIdx' = toolIdx + 1 /\ before' = rows)]_vars
  /\ [](Dispatched
        => \E sheetFails \in BOOLEAN :
             /\ rows = Dispatch(before, ADMIN_PASSWORD, TZ, toolCall, sheetFails).rows
             /\ result
                  = ToolResult(Dispatch(before, ADMIN_PASSWORD, TZ, toolCall, sheetFails)))

\* addSlot and then bookSlot of the same slot in the first turn, on an empty
\* sheet: the row just added is booked.
C20_AddedSlotBookedInSameTurn ==
  /\ pc = "tools"
  /\ loopCount = 1
  /\ toolIdx = 2
  /\ toolCall.name = "bookSlot"
  /\ ~IsError(result)
  /\ Len(rows) = 1
  /\ before = <<ScheduleRow(Monday, TenOClock, Math, Teacher, <<>>, <<>>)>>
  /\ rows[1].Student_Name = toolCall.args.studentName

\* The retrieval found nothing to use: a collaborator failed, or no document
\* matched.
NothingRetrieved(outcome) ==
  \/ outcome.embed = "rejects"
  \/ outcome.rpc \in {"rejects", "error"}
  \/ ~outcome.hasData
  \/ Len(outcome.data) = 0

\* C11: retrieveContext raises for no outcome of its collaborators; when the
\* embedding fails, the store query returns an error or throws, or nothing
\* matches, the request is not failed by it: it goes on to the completion
\* call, and the context in the system message is the empty string.
C11_RetrievalNeverFailsRequest ==
  /\ \A outcome \in RetrievalOutcomes : ~retrieveContext(outcome).threw
  /\ (pc # "request" /\ retrieved # NoRetrieval /\ NothingRetrieved(retrieved))
     => /\ pc = "create" \/ completions >= 1
        /\ (pc = "done" /\ response.status = 500)
           => response.body.error = "Connection error."
        /\ currentMessages[1] = SystemMessage(<<>>)

\* The embedding failed and the request was answered all the same.
C11_AnsweredAfterEmbeddingFailure ==
  /\ retrieved.embed = "rejects"
  /\ retrievals = 1
  /\ pc = "done"
  /\ response.status = 200
  /\ currentMessages[1] = SystemMessage(<<>>)

\* C18: whenever the history is sent to the provider it is the system
\* message, the caller's messages in their order, and then, for each round
\* so far, the assistant message followed by one tool message for each
\* invocation it lists, in the order listed and under that invocation's
\* identifier, with nothing else in between.
C18_HistoryThreaded ==
  (pc = "create" \/ (pc = "tools" /\ toolIdx = message.tool_calls))
  => LET n == Len(request.messages)
         tail == SubSeq(currentMessages, n + 2, Len(currentMessages))
         turns == {i \in 1..Len(tail) : tail[i].role = "assistant"}
     IN  /\ Len(currentMessages) >= n + 1
         /\ currentMessages[1].role = "system"
         /\ \A i \in 1..n : currentMessages[i + 1] = request.messages[i]
         /\ Cardinality(turns) = loopCount
         /\ tail # <<>> => 1 \in turns
         /\ \A i \in turns :
              /\ \A k \in 1..tail[i].tool_calls :
                   /\ i + k <= Len(tail)
                   /\ tail[i + k].role = "tool"
                   /\ tail[i + k].tool_call_id = ToolCallId(tail[i].content, k)
              /\ i + tail[i].tool_calls < Len(tail)
                 => (i + tail[i].tool_calls + 1) \in turns

\* ---------------------------------------------------------------------
\* Properties of the store operations.
\* ---------------------------------------------------------------------

\* A student name that is present and has a character trim() keeps.
NonBlank(name) ==
  name # Undefined /\ \E k \in 1..Len(name) : name[k] \notin Whitespace

\* C2: bookSlot on a slot whose student name is non-blank gives the conflict
\* error and changes nothing, and no bookSlot call, with any student name,
\* changes the student name or contact info of a row that has a student.
C2_BookedSlotNeverOverwritten ==
  toolCall.name = "bookSlot"
  => LET i == FindIndex(before, SlotOf(toolCall.args))
     IN  /\ (i > 0 /\ NonBlank(before[i].Student_Name))
            => /\ rows = before
               /\ IsError(result)
               /\ result.error = ConflictError
         /\ Len(rows) = Len(before)
         /\ \A j \in 1..Len(before) :
              NonBlank(before[j].Student_Name)
              => /\ rows[j].Student_Name = before[j].Student_Name
                 /\ rows[j].Contact_Info = before[j].Contact_Info

\* A slot that an earlier bookSlot call gave to Alice is asked for again.
C2_ConflictReturned ==
  /\ toolCall.name = "bookSlot"
  /\ toolCall.args.studentName = BlankName
  /\ IsError(result)
  /\ result.error = ConflictError
  /\ rows[FindIndex(rows, SlotOf(toolCall.args))].Student_Name = Alice

\* The rows C7 asks for: the trimmed date is the trimmed argument, the trimmed
\* subject is the trimmed argument whatever the case of the letters, and the
\* student name is absent or has nothing but whitespace.
Wanted(row, date, subject) ==
  /\ Trim(OrEmpty(row.Date)) = Trim(OrEmpty(date))
  /\ ToLowerCase(Trim(OrEmpty(row.Subject))) = ToLowerCase(Trim(OrEmpty(subject)))
  /\ ~NonBlank(row.Student_Name)

C8_EightSlotsPerWeekday ==
  (/\ toolCall.name = "createBatchSchedule"
   /\ NewDate(toolCall.args.startDate) # NaN
   /\ toolCall.args.days # NaN)
  => LET start == NewDate(toolCall.args.startDate)
         weekdays == {i \in 0..(toolCall.args.days - 1) :
                        GetUTCDay(start + i * HoursPerDay) \in 1..5}
         added == SubSeq(rows, Len(before) + 1, Len(rows))
     IN  /\ ~IsError(result)
         /\ SubSeq(rows, 1, Len(before)) = before
         /\ Len(added) = 8 * Cardinality(weekdays)
         /\ result.count = Len(added)
         /\ \A i \in weekdays, hour \in 10..17 :
              \E k \in 1..Len(added) :
                /\ added[k].Date = ISODate(start + i * HoursPerDay)
                /\ added[k].Time = NumStr(hour) \o <<":", "0", "0">>
         /\ \A k \in 1..Len(added) : GetUTCDay(NewDate(added[k].Date)) \in 1..5
         /\ (toolCall.args.startDate = Monday /\ toolCall.args.days = 7)
            => result.count = 40

\* The value bookSlot stored in the Contact_Info cell of the row it booked.
StoredContact == rows[FindIndex(before, SlotOf(toolCall.args))].Contact_Info

\* A contact text with nothing to clean: no line terminator, no quote, and
\* its trimmed form does not start a formula.
AlreadySafe(text) ==
  /\ \A k \in 1..Len(text) : text[k] \notin Newlines /\ ~IsQuote(text[k])
  /\ Trim(text) # <<>> => Trim(text)[1] \notin FormulaStarts

\* C12: the contact info a successful bookSlot stores has no line terminator,
\* no quote other than one leading apostrophe put in front of '=', '+' or
\* '-', and does not begin with '=', '+' or '-'; an input whose trimmed form
\* begins with one of these is stored behind the apostrophe, and an input
\* with nothing to clean is stored as its trimmed form.
C12_ContactInfoNeutralized ==
  (toolCall.name = "bookSlot" /\ ~IsError(result))
  => LET given == OrEmpty(toolCall.args.contactInfo)
         stored == StoredContact
     IN  /\ \A k \in 1..Len(stored) : stored[k] \notin Newlines
         /\ \A k \in 1..Len(stored) :
              IsQuote(stored[k])
              => k = 1 /\ stored[1] = "'" /\ Len(stored) > 1 /\ stored[2] \in FormulaStarts
         /\ stored # <<>> => stored[1] \notin FormulaStarts
         /\ (Trim(given) # <<>> /\ Trim(given)[1] \in FormulaStarts)
            => /\ Len(stored) > 1
               /\ stored[1] = "'"
               /\ stored[2] = Trim(given)[1]
         /\ AlreadySafe(given) => stored = Trim(given)

\* A quoted formula: the quote goes, the apostrophe comes.
C12_QuotedFormulaNeutralized ==
  /\ toolCall.name = "bookSlot"
  /\ ~IsError(result)
  /\ toolCall.args.contactInfo = <<"\"", "=", "a">>
  /\ StoredContact = <<"'", "=", "a">>

\* A row and an identifier agree: date, time and teacher are the same text
\* once trimmed, the subject the same text once trimmed and lower-cased.
SameSlot(row, args) ==
  /\ Trim(OrEmpty(row.Date)) = Trim(args.date)
  /\ Trim(OrEmpty(row.Time)) = Trim(args.time)
  /\ Trim(OrEmpty(row.Teacher)) = Trim(args.teacher)
  /\ ToLowerCase(Trim(OrEmpty(row.Subject))) = ToLowerCase(Trim(args.subject))

\* C15: bookSlot gives the not-found error when no row agrees with the
\* identifier on all four fields, and a bookSlot that fails, not found or
\* conflict, leaves every row as it was.
C15_NotFoundChangesNothing ==
  toolCall.name = "bookSlot"
  => /\ (\A i \in 1..Len(before) : ~SameSlot(before[i], toolCall.args))
        => IsError(result) /\ result.error = NotFoundError
     /\ IsError(result) => rows = before
     /\ (IsError(result) /\ result.error = NotFoundError)
        => \A i \in 1..Len(before) : ~SameSlot(before[i], toolCall.args)

\* A free row that differs from the identifier by the case of the teacher
\* only is not found.
C15_TeacherCaseNotFound ==
  /\ toolCall.name = "bookSlot"
  /\ before = <<CapitalTeacherRow>>
  /\ toolCall.args.teacher = <<"m">>
  /\ toolCall.args.subject = MathLower
  /\ toolCall.args.date = MondayPadded
  /\ toolCall.args.time = <<" ">> \o TenOClock
  /\ IsError(result)
  /\ result.error = NotFoundError
  /\ rows = before

\* ---------------------------------------------------------------------
\* Properties of the knowledge sync job.
\* ---------------------------------------------------------------------

\* C14: once the pairs are read, no failure on one pair ends the job: it
\* always ends with the success report, every pair taken by the loop, and
\* the count reported is the number of documents inserted by this run.
C14_SyncSkipsFailures ==
  (pc = "done" /\ Len(knowledge) > 0)
  => /\ response.status = 200
     /\ item = Len(knowledge)
     /\ response.body.count
          = Cardinality({i \in 1..Len(documents) : documents[i] # OldDocument})

\* ---------------------------------------------------------------------
\* Properties of the chat widget.
\* ---------------------------------------------------------------------

\* The server answered with a message, not with an error object.
IsReply(reply) == reply.kind = "json" /\ reply.error = Undefined

\* C17: while a send is awaited the entries are those sent, ending in the
\* user's entry; once it is settled, whatever came back, the entries are
\* those sent plus one assistant entry, whose content is the content of the
\* message returned or, for an error object or a failed transport, the fixed
\* failure text, and the loading flag is off.
C17_OneAssistantEntryPerSend ==
  /\ isLoading => messages = sent /\ sent[Len(sent)].role = "user"
  /\ fetched # NoFetch
     => /\ ~isLoading
        /\ Len(messages) = Len(sent) + 1
        /\ SubSeq(messages, 1, Len(sent)) = sent
        /\ sent[Len(sent)].role = "user"
        /\ messages[Len(messages)].role = "assistant"
        /\ messages[Len(messages)].content
             = IF IsReply(fetched) THEN fetched.content ELSE GenericFailure

\* The second send of a conversation answered by an error object.
C17_ErrorObjectShownAsFailureText ==
  /\ ~isLoading
  /\ fetched.kind = "json"
  /\ fetched.error # Undefined
  /\ Len(messages) = 4
  /\ messages[4] = Entry("assistant", GenericFailure)
  /\ messages[3].role = "user"

\* ---------------------------------------------------------------------
\* Properties of concurrent bookings.
\* ---------------------------------------------------------------------

\* The attempts whose save has completed.
Savers == {saved[k] : k \in 1..Len(saved)}

\* The slot asked for was in the sheet, free, before any attempt.
FreeAtStart ==
  LET i == FindIndex(before, RaceSlot)
  IN  i # 0 /\ IsBlank(before[i].Student_Name)

ToolMessages ==
  {i \in 1..Len(currentMessages) : currentMessages[i].role = "tool"}

\* C25: once the request is answered, the result of every invocation that
\* was executed, pushed under the identifier of the completion that listed
\* it, was in the history of a completion call made after it, and no
\* invocation listed by the message returned was executed.
C25_ResultsReachProvider ==
  pc = "done"
  => /\ \A i \in ToolMessages : currentMessages[i].tool_call_id[1] < completions
     /\ response.status = 200
        => /\ response.body = message
           /\ \A i \in ToolMessages :
                currentMessages[i].tool_call_id[1] # message.content

\* ---------------------------------------------------------------------
\* Properties of the store operations called in sequence.
\* ---------------------------------------------------------------------

\* The last call was a bookSlot that returned its success.
BookedNow == toolCall.name = "bookSlot" /\ ~IsError(result)

\* The row numbers getAvailability returns for a date and subject now.
ReturnedRowNumbers(date, subject) ==
  LET slots == getAvailability(rows, date, subject).value.slots
  IN  {slots[k].rowNumber : k \in 1..Len(slots)}

\* C21: after a bookSlot call that returned success, whatever student name
\* it was given, the row it filled is not among those getAvailability
\* returns for its date and subject, and bookSlot for the same identifier,
\* under any student name, throws the conflict error.
C21_BookedSlotUnavailable ==
  BookedNow
  => LET slot == SlotOf(toolCall.args)
         i == FindIndex(before, slot)
     IN  /\ RowNumber(i) \notin ReturnedRowNumbers(slot.date, slot.subject)
         /\ \A studentName \in {Alice, Bob, BlankName} :
              LET again == bookSlot(rows, slot, studentName, Phone)
              IN  again.threw /\ again.value = ConflictError

\* The identifier a caller makes of a slot getAvailability returned.
SlotOfReturned(slot) == SlotIdentifier(slot.date, slot.time, slot.subject, slot.teacher)

\* C22: after getAvailability, on a sheet grown by addSlot,
\* createBatchSchedule and bookSlot, bookSlot under the date, time, subject
\* and teacher of any slot returned succeeds, and the row it fills was
\* available.
C22_ReturnedSlotBookable ==
  toolCall.name = "getAvailability"
  => \A k \in 1..Len(result.slots) :
       LET slot == SlotOfReturned(result.slots[k])
           i == FindIndex(rows, slot)
           outcome == bookSlot(rows, slot, Alice, Phone)
       IN  /\ ~outcome.threw
           /\ i # 0
           /\ IsBlank(rows[i].Student_Name)
           /\ outcome.rows[i].Student_Name = Alice

\* Row i matches the slot and no row before it does.
FirstMatching(sheet, slot, i) ==
  /\ matchesSlot(sheet[i], slot)
  /\ \A j \in 1..(i - 1) : ~matchesSlot(sheet[j], slot)

\* C23: a bookSlot call that returned success left the sheet with the same
\* number of rows; the first row in sheet order matching the identifier
\* holds the student name given and the sanitized contact info, and its date,
\* time, subject and teacher are as before; every other row is as before.
C23_BookingTouchesOneRow ==
  BookedNow
  => /\ Len(rows) = Len(before)
     /\ \E i \in 1..Len(before) :
          /\ FirstMatching(before, SlotOf(toolCall.args), i)
          /\ rows[i] = [before[i] EXCEPT
                          !.Student_Name = toolCall.args.studentName,
                          !.Contact_Info = formatContactInfo(toolCall.args.contactInfo)]
          /\ \A j \in 1..Len(before) : j # i => rows[j] = before[j]

\* Two free rows of one identifier: the booking filled the first only.
C23_FirstOfTwinsFilled ==
  /\ BookedNow
  /\ Len(before) = 2
  /\ matchesSlot(before[1], SlotOf(toolCall.args))
  /\ matchesSlot(before[2], SlotOf(toolCall.args))
  /\ rows[1].Student_Name = Alice
  /\ rows[2] = before[2]
  /\ IsBlank(rows[2].Student_Name)

\* ---------------------------------------------------------------------
\* Properties of the index after a knowledge sync.
\* ---------------------------------------------------------------------

\* The pairs of the sheet that have a question and an answer.
CompletePairs ==
  {k \in 1..Len(knowledge) : knowledge[k].question # <<>> /\ knowledge[k].answer # <<>>}

\* C26: when the sync job has answered with its message (status 200), the
\* table holds no document of an earlier run; it holds as many documents as
\* the count of inserts that succeeded, at most one per pair with both
\* texts, each made of such a pair.
C26_IndexReplaced ==
  (pc = "done" /\ response.status = 200)
  => /\ \A i \in 1..Len(documents) : documents[i] # OldDocument
     /\ Len(documents) = syncCount
     /\ Len(documents) <= Cardinality(CompletePairs)
     /\ \A i \in 1..Len(documents) :
          \E k \in CompletePairs : documents[i].content = Content(knowledge[k])

\* ---------------------------------------------------------------------
\* Properties of the rows added.
\* ---------------------------------------------------------------------

\* C27: an addSlot call that returned success left every row there was in
\* its place and put one row after them, with the date, time, subject and
\* teacher given and empty student and contact cells; getAvailability for
\* that date and subject then returns that row, under the time and teacher
\* given (trimmed, as it returns every field).
C27_AddedSlotAvailable ==
  (toolCall.name = "addSlot" /\ ~IsError(result))
  => LET args == toolCall.args
         n == Len(rows)
         slots == getAvailability(rows, args.date, args.subject).value.slots
     IN  /\ n = Len(before) + 1
         /\ SubSeq(rows, 1, n - 1) = before
         /\ rows[n].Date = args.date
         /\ rows[n].Time = args.time
         /\ rows[n].Subject = args.subject
         /\ rows[n].Teacher = args.teacher
         /\ IsBlank(rows[n].Student_Name)
         /\ IsBlank(rows[n].Contact_Info)
         /\ \E k \in 1..Len(slots) :
              /\ slots[k].rowNumber = RowNumber(n)
              /\ slots[k].time = Trim(args.time)
              /\ slots[k].teacher = Trim(args.teacher)

\* A slot added, with a padded date, after a row that a student holds.
C27_AddedAfterBookedRow ==
  /\ toolCall.name = "addSlot"
  /\ ~IsError(result)
  /\ toolCall.args.date = MondayPadded
  /\ Len(rows) = 2
  /\ rows[1].Student_Name = Alice
  /\ rows[2].Date = MondayPadded

\* What the loops of the createBatchSchedule call just made pushed.
Generated ==
  rowsToAdd(TZ, NewDate(toolCall.args.startDate), 0, toolCall.args.days,
            toolCall.args.subject, toolCall.args.teacher)

\* C28: a createBatchSchedule call makes at most one call of addRows and
\* none when its loops pushed no row or threw; the sheet after it is the
\* sheet before it, followed, when rows were pushed, by all of them in the
\* order pushed, so that no sheet holds a part of a batch.
C28_OneBulkAppend ==
  toolCall.name = "createBatchSchedule"
  => IF Generated.threw
     THEN IsError(result) /\ rows = before
     ELSE LET calls == AddRowsCalls(Generated.rows)
          IN  /\ ~IsError(result)
              /\ Len(calls) <= 1
              /\ Generated.rows = <<>> => calls = <<>> /\ rows = before
              /\ Generated.rows # <<>>
                 => /\ calls = <<Generated.rows>>
                    /\ rows = before \o Generated.rows
                    /\ Len(rows) - Len(before) = result.count

\* A batch of several days appended whole after the row there was.
C28_SeveralDaysAppendedAtOnce ==
  /\ toolCall.name = "createBatchSchedule"
  /\ ~IsError(result)
  /\ Len(before) = 1
  /\ result.count >= 2 * (EndHour - FirstHour)
  /\ Len(rows) = 1 + result.count

====
